---- MODULE Spec2Model ----
(***************************************************************************)
(* junco-launcher/utils, src/http/mod.rs: download_to_file (the fetch      *)
(* engine), verify_hash (the standalone re-verification) and HasherEnum    *)
(* (the streaming digest).  One destination path, a small file system      *)
(* around it, an HTTP server answering each request, and the fetch as a    *)
(* step machine with one position per statement that touches the file      *)
(* system, the network or the hasher.                                      *)
(***************************************************************************)
EXTENDS Integers, Sequences, FiniteSets, TLC

\* ------------------------------------------------------------------ bounds
\* Longest file content / response body of the model, in bytes.
MaxLen == 2
\* Number of parent directories of the destination path (a/b/file.txt = 2);
\* any number of them, outermost first, may exist before a call.
MaxDepth == 2

\* The byte values of the model (the program's are 0..255).
Byte == {0, 1}
\* Every byte sequence of at most MaxLen bytes.
Contents == UNION {[1..n -> Byte] : n \in 0..MaxLen}

\* The fetches that may exist; Callers are the ones the sequential
\* specification runs (one call at a time, no concurrent writer).
Procs == {1, 2}
Callers == {1}

\* ------------------------------------------------------- program constants
Sha1HexLen == 40
Sha256HexLen == 64
Sha512HexLen == 128
BufferSize == 8192

Min(a, b) == IF a < b THEN a ELSE b
IsPrefix(a, b) == Len(a) <= Len(b) /\ a = SubSeq(b, 1, Len(a))

\* ---------------------------------------------------------------- Option
None == [some |-> FALSE, val |-> <<>>]
Some(h) == [some |-> TRUE, val |-> h]

\* ------------------------------------------------------------ HasherEnum
\* The sha1 / sha2 crates are modelled by a collision-free streaming fold:
\* the state is the absorbed byte string read as a number with a leading 1,
\* the digest is that number in the low bytes of an output of the
\* algorithm's size, the other bytes being the algorithm's filler.
RECURSIVE Absorb(_, _)
Absorb(st, data) ==
    IF data = <<>> THEN st
    ELSE Absorb(st * (Cardinality(Byte) + 1) + Head(data) + 1, Tail(data))

OutputSize(alg) ==
    CASE alg = "Sha1" -> 20
      [] alg = "Sha256" -> 32
      [] alg = "Sha512" -> 64
      [] OTHER -> 0

Filler(alg) ==
    CASE alg = "Sha1" -> 218
      [] alg = "Sha256" -> 227
      [] alg = "Sha512" -> 207
      [] OTHER -> 0

DigestBytes(alg, st) ==
    [i \in 1..OutputSize(alg) |->
        IF i = OutputSize(alg) THEN st % 256
        ELSE IF i = OutputSize(alg) - 1 THEN (st \div 256) % 256
        ELSE Filler(alg)]

NewHasher(alg) == [alg |-> alg, st |-> 1]

\* Mutant of HasherUpdate: every update starts from a fresh state.
HasherUpdateRestarts(h, data) ==
    IF h.alg = "None" THEN h ELSE [h EXCEPT !.st = Absorb(1, data)]

\* HasherEnum::update
HasherUpdate(h, data) ==
    IF h.alg = "None" THEN h ELSE [h EXCEPT !.st = Absorb(h.st, data)]

\* Mutant of HasherFinalize: the None variant yields one zero byte.
HasherFinalizeNoneNotEmpty(h) ==
    IF h.alg = "None" THEN <<0>> ELSE DigestBytes(h.alg, h.st)

\* HasherEnum::finalize
HasherFinalize(h) ==
    IF h.alg = "None" THEN <<>> ELSE DigestBytes(h.alg, h.st)

\* hex::encode: two lowercase hexadecimal characters per byte.
HexChars == <<"0", "1", "2", "3", "4", "5", "6", "7",
              "8", "9", "a", "b", "c", "d", "e", "f">>

HexEncode(bytes) ==
    [i \in 1..(2 * Len(bytes)) |->
        IF i % 2 = 1 THEN HexChars[(bytes[(i + 1) \div 2] \div 16) + 1]
        ELSE HexChars[(bytes[i \div 2] % 16) + 1]]

\* Mutant of FetchSelectHasher: the arms for 64 and 128 are exchanged.
FetchSelectHasherSwapped(e) ==
    IF e.some /\ Len(e.val) = Sha1HexLen THEN NewHasher("Sha1")
    ELSE IF e.some /\ Len(e.val) = Sha256HexLen THEN NewHasher("Sha512")
    ELSE IF e.some /\ Len(e.val) = Sha512HexLen THEN NewHasher("Sha256")
    ELSE NewHasher("None")

\* The hasher download_to_file selects from expected_hash (an Option).
FetchSelectHasher(e) ==
    IF e.some /\ Len(e.val) = Sha1HexLen THEN NewHasher("Sha1")
    ELSE IF e.some /\ Len(e.val) = Sha256HexLen THEN NewHasher("Sha256")
    ELSE IF e.some /\ Len(e.val) = Sha512HexLen THEN NewHasher("Sha512")
    ELSE NewHasher("None")

\* Mutant of VerifySelectHasher: every expected string is taken for SHA-1.
VerifySelectHasherSha1Only(expected) == NewHasher("Sha1")

\* Mutant of VerifySelectHasher: the default arm selects SHA-256.
VerifySelectHasherDefaultSha256(expected) ==
    IF Len(expected) = Sha1HexLen THEN NewHasher("Sha1")
    ELSE IF Len(expected) = Sha512HexLen THEN NewHasher("Sha512")
    ELSE NewHasher("Sha256")

\* The hasher verify_hash selects from expected (a string).
VerifySelectHasher(expected) ==
    IF Len(expected) = Sha1HexLen THEN NewHasher("Sha1")
    ELSE IF Len(expected) = Sha256HexLen THEN NewHasher("Sha256")
    ELSE IF Len(expected) = Sha512HexLen THEN NewHasher("Sha512")
    ELSE NewHasher("None")

\* The lowercase hex digest of a whole byte string under an algorithm.
HexDigest(alg, data) ==
    HexEncode(HasherFinalize(HasherUpdate(NewHasher(alg), data)))

\* ------------------------------------------------------------ the inputs
AllZero40 == [i \in 1..Sha1HexLen |-> "0"]
OddLength == <<"a", "b", "c">>
ExpectedStrings ==
    {HexDigest(a, c) : a \in {"Sha1", "Sha256", "Sha512"}, c \in Contents}
        \cup {AllZero40, <<>>, OddLength}
ExpectedChoices == {None} \cup {Some(h) : h \in ExpectedStrings}

\* The strings verify_hash is called with: those above, and for every digest
\* its uppercase spelling, the digest cut by one character and the digest
\* with one character more, and all-zero strings of the SHA-2 lengths.
UpperChar(c) ==
    CASE c = "a" -> "A" [] c = "b" -> "B" [] c = "c" -> "C"
      [] c = "d" -> "D" [] c = "e" -> "E" [] c = "f" -> "F"
      [] OTHER -> c
UpperCase(h) == [i \in DOMAIN h |-> UpperChar(h[i])]
Zeros(n) == [i \in 1..n |-> "0"]
DigestStrings ==
    {HexDigest(a, c) : a \in {"Sha1", "Sha256", "Sha512"}, c \in Contents}
VerifyStrings ==
    ExpectedStrings
        \cup {UpperCase(h) : h \in DigestStrings}
        \cup {SubSeq(h, 1, Len(h) - 1) : h \in DigestStrings}
        \cup {h \o <<"0">> : h \in DigestStrings}
        \cup {Zeros(Sha256HexLen), Zeros(Sha512HexLen)}

Statuses == {200, 404}
IsSuccess(status) == status >= 200 /\ status <= 299

\* ------------------------------------------------------------ io::Result
NoResult == [kind |-> "Pending", op |-> "", code |-> 0, got |-> <<>>, want |-> <<>>]
Ok == [kind |-> "Ok", op |-> "", code |-> 0, got |-> <<>>, want |-> <<>>]
\* verify_hash's Ok(true) and Ok(false)
OkBool(b) ==
    [kind |-> IF b THEN "OkTrue" ELSE "OkFalse", op |-> "", code |-> 0,
     got |-> <<>>, want |-> <<>>]
IoError(op) == [kind |-> "IoError", op |-> op, code |-> 0, got |-> <<>>, want |-> <<>>]
HttpError(op) == [kind |-> "HttpError", op |-> op, code |-> 0, got |-> <<>>, want |-> <<>>]
StatusError(code) ==
    [kind |-> "StatusError", op |-> "", code |-> code, got |-> <<>>, want |-> <<>>]
\* Mutant of HashMismatch: the two strings of the message are exchanged.
HashMismatchSwapped(actual, expected) ==
    [kind |-> "HashMismatch", op |-> "", code |-> 0, got |-> expected, want |-> actual]
HashMismatch(actual, expected) ==
    [kind |-> "HashMismatch", op |-> "", code |-> 0, got |-> actual, want |-> expected]

\* ----------------------------------------------------------------- state
VARIABLES
    dirs,           \* how many of the MaxDepth parent directories exist (outermost first)
    fileExists,     \* the destination exists
    fileData,       \* its bytes
    pc,             \* each fetch's position in download_to_file
    expected_hash,  \* argument: Option<&str>
    override_file,  \* argument: bool
    result,         \* the io::Result returned
    response,       \* the HTTP response: status and body
    stream,         \* the part of the body not yet delivered
    chunk,          \* the chunk stream.next() returned
    hasher,         \* download_to_file's HasherEnum
    wpos,           \* write offset of out_file
    vhasher,        \* verify_hash's HasherEnum
    vpos,           \* read offset of verify_hash's reader
    file0,          \* history: the destination when the call began
    dirs0,          \* history: dirs when the call began
    requests,       \* history: HTTP requests issued by the call
    skipped,        \* history: the call returned through the skip rule
    wopens,         \* history: times the call opened the destination for writing
    received,       \* history: concatenation of the chunks received
    verified,       \* history: outcome of the skip check ("none", "true", "false")
    mode,           \* which public operation the caller invoked: "fetch" or "verify"
    fed,            \* history: concatenation of the slices passed to hasher.update
    prev            \* history: how the caller's previous fetch left the destination

fsVars == <<dirs, fileExists, fileData>>
argVars == <<expected_hash, override_file, mode>>
netVars == <<response, stream, chunk, received, requests>>
verifyVars == <<vhasher, vpos, verified>>
histVars == <<file0, dirs0, skipped, wopens, fed, prev>>
vars == <<dirs, fileExists, fileData, pc, expected_hash, override_file,
          result, response, stream, chunk, hasher, wpos, vhasher, vpos,
          file0, dirs0, requests, skipped, wopens, received, verified,
          mode, fed, prev>>

NoResponse == [status |-> 0, body |-> <<>>]

Init ==
    /\ dirs \in 0..MaxDepth
    /\ fileExists \in (IF dirs = MaxDepth THEN BOOLEAN ELSE {FALSE})
    /\ fileData \in (IF fileExists THEN Contents ELSE {<<>>})
    /\ pc = [p \in Procs |-> "idle"]
    /\ expected_hash = [p \in Procs |-> None]
    /\ override_file = [p \in Procs |-> FALSE]
    /\ result = [p \in Procs |-> NoResult]
    /\ response = [p \in Procs |-> NoResponse]
    /\ stream = [p \in Procs |-> <<>>]
    /\ chunk = [p \in Procs |-> <<>>]
    /\ hasher = [p \in Procs |-> NewHasher("None")]
    /\ wpos = [p \in Procs |-> 0]
    /\ vhasher = [p \in Procs |-> NewHasher("None")]
    /\ vpos = [p \in Procs |-> 0]
    /\ file0 = [p \in Procs |-> [exists |-> FALSE, data |-> <<>>]]
    /\ dirs0 = [p \in Procs |-> 0]
    /\ requests = [p \in Procs |-> 0]
    /\ skipped = [p \in Procs |-> FALSE]
    /\ wopens = [p \in Procs |-> 0]
    /\ received = [p \in Procs |-> <<>>]
    /\ verified = [p \in Procs |-> "none"]
    /\ mode = [p \in Procs |-> "fetch"]
    /\ fed = [p \in Procs |-> <<>>]
    /\ prev = "none"

\* `return r`
Return(p, r) ==
    /\ pc' = [pc EXCEPT ![p] = "done"]
    /\ result' = [result EXCEPT ![p] = r]

Goto(p, label) ==
    /\ pc' = [pc EXCEPT ![p] = label]
    /\ UNCHANGED result

\* A caller invokes download_to_file(url, filepath, e, o).
Call(p, e, o) ==
    /\ pc[p] = "idle"
    /\ pc' = [pc EXCEPT ![p] = "start"]
    /\ expected_hash' = [expected_hash EXCEPT ![p] = e]
    /\ override_file' = [override_file EXCEPT ![p] = o]
    /\ file0' = [file0 EXCEPT ![p] = [exists |-> fileExists, data |-> fileData]]
    /\ dirs0' = [dirs0 EXCEPT ![p] = dirs]
    /\ mode' = [mode EXCEPT ![p] = "fetch"]
    /\ UNCHANGED <<fsVars, result, netVars, verifyVars, skipped, wopens, fed, prev,
                   hasher, wpos>>

\* A caller invokes verify_hash(path, h) on the destination.
VerifyCall(p, h) ==
    /\ pc[p] = "idle"
    /\ pc' = [pc EXCEPT ![p] = "verify_open"]
    /\ mode' = [mode EXCEPT ![p] = "verify"]
    /\ expected_hash' = [expected_hash EXCEPT ![p] = Some(h)]
    /\ file0' = [file0 EXCEPT ![p] = [exists |-> fileExists, data |-> fileData]]
    /\ dirs0' = [dirs0 EXCEPT ![p] = dirs]
    /\ UNCHANGED <<fsVars, override_file, result, netVars, verifyVars, skipped,
                   wopens, fed, prev, hasher, wpos>>

\* The caller has the result; the call's locals are dropped.
Finish(p) ==
    /\ pc[p] = "done"
    /\ pc' = [pc EXCEPT ![p] = "idle"]
    /\ expected_hash' = [expected_hash EXCEPT ![p] = None]
    /\ override_file' = [override_file EXCEPT ![p] = FALSE]
    /\ result' = [result EXCEPT ![p] = NoResult]
    /\ response' = [response EXCEPT ![p] = NoResponse]
    /\ stream' = [stream EXCEPT ![p] = <<>>]
    /\ chunk' = [chunk EXCEPT ![p] = <<>>]
    /\ hasher' = [hasher EXCEPT ![p] = NewHasher("None")]
    /\ wpos' = [wpos EXCEPT ![p] = 0]
    /\ vhasher' = [vhasher EXCEPT ![p] = NewHasher("None")]
    /\ vpos' = [vpos EXCEPT ![p] = 0]
    /\ file0' = [file0 EXCEPT ![p] = [exists |-> FALSE, data |-> <<>>]]
    /\ dirs0' = [dirs0 EXCEPT ![p] = 0]
    /\ requests' = [requests EXCEPT ![p] = 0]
    /\ skipped' = [skipped EXCEPT ![p] = FALSE]
    /\ wopens' = [wopens EXCEPT ![p] = 0]
    /\ received' = [received EXCEPT ![p] = <<>>]
    /\ verified' = [verified EXCEPT ![p] = "none"]
    /\ mode' = [mode EXCEPT ![p] = "fetch"]
    /\ fed' = [fed EXCEPT ![p] = <<>>]
    /\ UNCHANGED <<fsVars, prev>>

\* Mutant of SkipCheck: an existing destination without an expected hash is
\* fetched again instead of being accepted.
SkipCheckRefetchWithoutHash(p) ==
    /\ pc[p] = "start"
    /\ IF fileExists /\ ~override_file[p] /\ expected_hash[p].some
       THEN Goto(p, "verify_open")
       ELSE Goto(p, "mkdirs")
    /\ UNCHANGED <<fsVars, argVars, netVars, verifyVars, hasher, wpos,
                   file0, dirs0, wopens, skipped, fed, prev>>

\* Mutant of SkipCheck: the override flag is not consulted.
SkipCheckIgnoreOverride(p) ==
    /\ pc[p] = "start"
    /\ IF fileExists
       THEN IF expected_hash[p].some
            THEN /\ Goto(p, "verify_open")
                 /\ UNCHANGED skipped
            ELSE /\ Return(p, Ok)
                 /\ skipped' = [skipped EXCEPT ![p] = TRUE]
       ELSE /\ Goto(p, "mkdirs")
            /\ UNCHANGED skipped
    /\ UNCHANGED <<fsVars, argVars, netVars, verifyVars, hasher, wpos,
                   file0, dirs0, wopens, fed, prev>>

\* Mutant of SkipCheck: an existing destination is accepted without being
\* verified.
SkipCheckTrustsExisting(p) ==
    /\ pc[p] = "start"
    /\ IF fileExists /\ ~override_file[p]
       THEN /\ Return(p, Ok)
            /\ skipped' = [skipped EXCEPT ![p] = TRUE]
       ELSE /\ Goto(p, "mkdirs")
            /\ UNCHANGED skipped
    /\ UNCHANGED <<fsVars, argVars, netVars, verifyVars, hasher, wpos,
                   file0, dirs0, wopens, fed, prev>>

\* if expanded_path.exists() && !override_file { ... }
SkipCheck(p) ==
    /\ pc[p] = "start"
    /\ IF fileExists /\ ~override_file[p]
       THEN IF expected_hash[p].some
            THEN /\ Goto(p, "verify_open")
                 /\ UNCHANGED skipped
            ELSE /\ Return(p, Ok)
                 /\ skipped' = [skipped EXCEPT ![p] = TRUE]
       ELSE /\ Goto(p, "mkdirs")
            /\ UNCHANGED skipped
    /\ UNCHANGED <<fsVars, argVars, netVars, verifyVars, hasher, wpos,
                   file0, dirs0, wopens, fed, prev>>

\* Mutant of VerifyOpen: the file is opened with File::create, which truncates.
VerifyOpenTruncates(p) ==
    /\ pc[p] = "verify_open"
    /\ fileExists
    /\ fileData' = <<>>
    /\ vhasher' = [vhasher EXCEPT ![p] = VerifySelectHasher(expected_hash[p].val)]
    /\ vpos' = [vpos EXCEPT ![p] = 0]
    /\ Goto(p, "verify_read")
    /\ UNCHANGED <<dirs, fileExists, argVars, netVars, histVars, hasher,
                   wpos, verified>>

\* ---- verify_hash, as called by the skip check: verify_hash(&path, expected)?
\* let f = File::open(path)?;  and the selection of the hasher
VerifyOpen(p) ==
    /\ pc[p] = "verify_open"
    /\ fileExists
    /\ vhasher' = [vhasher EXCEPT ![p] = VerifySelectHasher(expected_hash[p].val)]
    /\ vpos' = [vpos EXCEPT ![p] = 0]
    /\ Goto(p, "verify_read")
    /\ UNCHANGED <<fsVars, argVars, netVars, histVars, hasher, wpos, verified>>

\* Mutant of VerifyOpenFail: the error counts as "not verified" and the
\* fetch goes on to the network (verify_hash(..).unwrap_or(false)).
VerifyOpenFailRefetches(p) ==
    /\ pc[p] = "verify_open"
    /\ Goto(p, "mkdirs")
    /\ UNCHANGED <<fsVars, argVars, netVars, verifyVars, histVars, hasher, wpos>>

\* File::open fails (permissions, ...): the `?` returns the error from fetch.
VerifyOpenFail(p) ==
    /\ pc[p] = "verify_open"
    /\ Return(p, IoError("open"))
    /\ UNCHANGED <<fsVars, argVars, netVars, verifyVars, histVars, hasher, wpos>>

\* Mutant of VerifyResult: the comparison always succeeds.
VerifyResultAlwaysTrue(h, expected) == TRUE

\* Mutant of VerifyResult: the comparison ignores the case of the letters.
VerifyResultIgnoreCase(h, expected) ==
    UpperCase(HexEncode(HasherFinalize(h))) = UpperCase(expected)

\* Mutant of VerifyResult: expected.starts_with(actual) instead of equality.
VerifyResultStartsWith(h, expected) ==
    IsPrefix(HexEncode(HasherFinalize(h)), expected)

\* Ok(actual == expected), with actual = hex::encode(hasher.finalize())
VerifyResult(h, expected) == HexEncode(HasherFinalize(h)) = expected

\* Mutant of VerifyRead: the last byte of every read is left out of the
\* update (&buffer[..n - 1]).
VerifyReadOffByOne(p) ==
    /\ pc[p] = "verify_read"
    /\ LET left == Len(fileData) - vpos[p] IN
       IF left <= 0
       THEN LET equal == VerifyResult(vhasher[p], expected_hash[p].val) IN
            IF mode[p] = "verify"
            THEN /\ Return(p, OkBool(equal))
                 /\ verified' = [verified EXCEPT ![p] = IF equal THEN "true" ELSE "false"]
                 /\ UNCHANGED <<vhasher, vpos, skipped>>
            ELSE IF equal
            THEN /\ Return(p, Ok)
                 /\ skipped' = [skipped EXCEPT ![p] = TRUE]
                 /\ verified' = [verified EXCEPT ![p] = "true"]
                 /\ UNCHANGED <<vhasher, vpos>>
            ELSE /\ Goto(p, "mkdirs")
                 /\ verified' = [verified EXCEPT ![p] = "false"]
                 /\ UNCHANGED <<vhasher, vpos, skipped>>
       ELSE \E n \in 1..Min(left, BufferSize) :
                /\ vhasher' = [vhasher EXCEPT ![p] =
                       HasherUpdate(@, SubSeq(fileData, vpos[p] + 1, vpos[p] + n - 1))]
                /\ vpos' = [vpos EXCEPT ![p] = @ + n]
                /\ Goto(p, "verify_read")
                /\ UNCHANGED <<skipped, verified>>
    /\ UNCHANGED <<fsVars, argVars, netVars, hasher, wpos, file0, dirs0, wopens,
                   fed, prev>>

\* One turn of the read loop: n = reader.read(&mut buffer)?; a read may return
\* any 1..BufferSize of the bytes left, and 0 at end of file. The value
\* returned goes to the caller of verify_hash, or to the skip check of
\* download_to_file, which returns Ok(()) on true and goes on on false.
VerifyRead(p) ==
    /\ pc[p] = "verify_read"
    /\ LET left == Len(fileData) - vpos[p] IN
       IF left <= 0
       THEN \* n == 0: break; finalize, encode, compare
            LET equal == VerifyResult(vhasher[p], expected_hash[p].val) IN
            IF mode[p] = "verify"
            THEN /\ Return(p, OkBool(equal))
                 /\ verified' = [verified EXCEPT ![p] = IF equal THEN "true" ELSE "false"]
                 /\ UNCHANGED <<vhasher, vpos, skipped>>
            ELSE IF equal
            THEN /\ Return(p, Ok)
                 /\ skipped' = [skipped EXCEPT ![p] = TRUE]
                 /\ verified' = [verified EXCEPT ![p] = "true"]
                 /\ UNCHANGED <<vhasher, vpos>>
            ELSE /\ Goto(p, "mkdirs")
                 /\ verified' = [verified EXCEPT ![p] = "false"]
                 /\ UNCHANGED <<vhasher, vpos, skipped>>
       ELSE \E n \in 1..Min(left, BufferSize) :
                /\ vhasher' = [vhasher EXCEPT ![p] =
                       HasherUpdate(@, SubSeq(fileData, vpos[p] + 1, vpos[p] + n))]
                /\ vpos' = [vpos EXCEPT ![p] = @ + n]
                /\ Goto(p, "verify_read")
                /\ UNCHANGED <<skipped, verified>>
    /\ UNCHANGED <<fsVars, argVars, netVars, hasher, wpos, file0, dirs0, wopens,
                   fed, prev>>

\* Mutant of VerifyReadFail: the read error is swallowed and verify_hash
\* answers false.
VerifyReadFailAsFalse(p) ==
    /\ pc[p] = "verify_read"
    /\ Return(p, OkBool(FALSE))
    /\ UNCHANGED <<fsVars, argVars, netVars, verifyVars, histVars, hasher, wpos>>

\* reader.read fails: the `?` returns the error from verify_hash and from fetch.
VerifyReadFail(p) ==
    /\ pc[p] = "verify_read"
    /\ Return(p, IoError("read"))
    /\ UNCHANGED <<fsVars, argVars, netVars, verifyVars, histVars, hasher, wpos>>

\* ---- the network path
\* Mutant of CreateDirAll: fs::create_dir, which makes one level only.
CreateDirOneLevel(p) ==
    /\ pc[p] = "mkdirs"
    /\ dirs' = IF dirs < MaxDepth THEN dirs + 1 ELSE dirs
    /\ Goto(p, "get")
    /\ UNCHANGED <<fileExists, fileData, argVars, netVars, verifyVars,
                   histVars, hasher, wpos>>

\* fs::create_dir_all(parent)?  succeeds: every parent directory exists.
CreateDirAll(p) ==
    /\ pc[p] = "mkdirs"
    /\ dirs' = MaxDepth
    /\ Goto(p, "get")
    /\ UNCHANGED <<fileExists, fileData, argVars, netVars, verifyVars,
                   histVars, hasher, wpos>>

\* fs::create_dir_all(parent)?  fails at some missing level; the levels it
\* created before stay.
CreateDirAllFail(p) ==
    /\ pc[p] = "mkdirs"
    /\ dirs < MaxDepth
    /\ \E k \in dirs..(MaxDepth - 1) : dirs' = k
    /\ Return(p, IoError("create_dir_all"))
    /\ UNCHANGED <<fileExists, fileData, argVars, netVars, verifyVars,
                   histVars, hasher, wpos>>

\* Mutant of GetTransportError: the request is issued again after a failure.
GetTransportErrorRetries(p) ==
    /\ pc[p] = "get"
    /\ requests' = [requests EXCEPT ![p] = @ + 1]
    /\ Goto(p, "get")
    /\ UNCHANGED <<fsVars, argVars, response, stream, chunk, received,
                   verifyVars, histVars, hasher, wpos>>

\* reqwest::get(url).await  fails: "http error: ..."
GetTransportError(p) ==
    /\ pc[p] = "get"
    /\ requests' = [requests EXCEPT ![p] = @ + 1]
    /\ Return(p, HttpError("get"))
    /\ UNCHANGED <<fsVars, argVars, response, stream, chunk, received,
                   verifyVars, histVars, hasher, wpos>>

\* reqwest::get(url).await  answers with a status and a body.
GetResponse(p, status, body) ==
    /\ pc[p] = "get"
    /\ requests' = [requests EXCEPT ![p] = @ + 1]
    /\ response' = [response EXCEPT ![p] = [status |-> status, body |-> body]]
    /\ Goto(p, "status")
    /\ UNCHANGED <<fsVars, argVars, stream, chunk, received,
                   verifyVars, histVars, hasher, wpos>>

\* Mutant of CheckStatus: the destination is created before the status is
\* looked at.
CheckStatusAfterCreate(p) ==
    /\ pc[p] = "status"
    /\ fileExists' = (dirs = MaxDepth \/ fileExists)
    /\ fileData' = <<>>
    /\ IF IsSuccess(response[p].status)
       THEN Goto(p, "create")
       ELSE Return(p, StatusError(response[p].status))
    /\ UNCHANGED <<dirs, argVars, netVars, verifyVars, histVars, hasher, wpos>>

\* if !response.status().is_success() { return Err(..status code..) }
CheckStatus(p) ==
    /\ pc[p] = "status"
    /\ IF IsSuccess(response[p].status)
       THEN Goto(p, "create")
       ELSE Return(p, StatusError(response[p].status))
    /\ UNCHANGED <<fsVars, argVars, netVars, verifyVars, histVars, hasher, wpos>>

\* Mutant of CreateFile: the destination is opened for writing without
\* truncation.
CreateFileNoTruncate(p) ==
    /\ pc[p] = "create"
    /\ dirs = MaxDepth
    /\ fileExists' = TRUE
    /\ fileData' = fileData
    /\ wpos' = [wpos EXCEPT ![p] = 0]
    /\ wopens' = [wopens EXCEPT ![p] = @ + 1]
    /\ hasher' = [hasher EXCEPT ![p] = FetchSelectHasher(expected_hash[p])]
    /\ stream' = [stream EXCEPT ![p] = response[p].body]
    /\ Goto(p, "next")
    /\ UNCHANGED <<dirs, argVars, response, chunk, received, requests,
                   verifyVars, file0, dirs0, skipped, fed, prev>>

\* let mut out_file = File::create(&expanded_path)?;  creates or truncates;
\* then the hasher is selected and the body stream taken.
CreateFile(p) ==
    /\ pc[p] = "create"
    /\ dirs = MaxDepth
    /\ fileExists' = TRUE
    /\ fileData' = <<>>
    /\ wpos' = [wpos EXCEPT ![p] = 0]
    /\ wopens' = [wopens EXCEPT ![p] = @ + 1]
    /\ hasher' = [hasher EXCEPT ![p] = FetchSelectHasher(expected_hash[p])]
    /\ stream' = [stream EXCEPT ![p] = response[p].body]
    /\ Goto(p, "next")
    /\ UNCHANGED <<dirs, argVars, response, chunk, received, requests,
                   verifyVars, file0, dirs0, skipped, fed, prev>>

\* File::create fails: the destination is left as it was.
CreateFileFail(p) ==
    /\ pc[p] = "create"
    /\ Return(p, IoError("create"))
    /\ UNCHANGED <<fsVars, argVars, netVars, verifyVars, histVars, hasher, wpos>>

\* stream.next().await yields Some(Ok(chunk)): any prefix of what is left of
\* the body; the transport decides the chunk sizes, an empty chunk included.
StreamNextChunk(p) ==
    /\ pc[p] = "next"
    /\ \E n \in 0..Len(stream[p]) :
        /\ chunk' = [chunk EXCEPT ![p] = SubSeq(stream[p], 1, n)]
        /\ stream' = [stream EXCEPT ![p] = SubSeq(@, n + 1, Len(@))]
        /\ received' = [received EXCEPT ![p] = @ \o SubSeq(stream[p], 1, n)]
    /\ Goto(p, "write")
    /\ UNCHANGED <<fsVars, argVars, response, requests, verifyVars, histVars,
                   hasher, wpos>>

\* stream.next().await yields None: the body is fully consumed.
StreamEnd(p) ==
    /\ pc[p] = "next"
    /\ stream[p] = <<>>
    /\ Goto(p, "final")
    /\ UNCHANGED <<fsVars, argVars, netVars, verifyVars, histVars, hasher, wpos>>

\* Mutant of StreamError: the destination is removed when the transport fails.
StreamErrorCleansUp(p) ==
    /\ pc[p] = "next"
    /\ fileExists' = FALSE
    /\ fileData' = <<>>
    /\ Return(p, HttpError("stream"))
    /\ UNCHANGED <<dirs, argVars, netVars, verifyVars, histVars, hasher, wpos>>

\* stream.next().await yields Some(Err(e)): the transport fails mid-body.
StreamError(p) ==
    /\ pc[p] = "next"
    /\ Return(p, HttpError("stream"))
    /\ UNCHANGED <<fsVars, argVars, netVars, verifyVars, histVars, hasher, wpos>>

\* The file after `bytes` are written at offset pos (a gap reads as zeros).
WriteAt(data, pos, bytes) ==
    LET end == pos + Len(bytes)
        n == IF Len(data) > end THEN Len(data) ELSE end
    IN [i \in 1..n |->
           IF i > pos /\ i <= end THEN bytes[i - pos]
           ELSE IF i <= Len(data) THEN data[i]
           ELSE 0]

\* Mutant of WriteChunk: every chunk is written at the start of the file.
WriteChunkRewinds(p) ==
    /\ pc[p] = "write"
    /\ fileData' = WriteAt(fileData, 0, chunk[p])
    /\ wpos' = [wpos EXCEPT ![p] = Len(chunk[p])]
    /\ Goto(p, "update")
    /\ UNCHANGED <<dirs, fileExists, argVars, netVars, verifyVars,
                   histVars, hasher>>

\* out_file.write_all(&chunk)?;
WriteChunk(p) ==
    /\ pc[p] = "write"
    /\ fileData' = WriteAt(fileData, wpos[p], chunk[p])
    /\ wpos' = [wpos EXCEPT ![p] = @ + Len(chunk[p])]
    /\ Goto(p, "update")
    /\ UNCHANGED <<dirs, fileExists, argVars, netVars, verifyVars,
                   histVars, hasher>>

\* Mutant of WriteChunkFail: the error of write_all is dropped and the loop
\* goes on.
WriteChunkFailIgnored(p) ==
    /\ pc[p] = "write"
    /\ \E k \in 0..(Len(chunk[p]) - 1) :
        /\ fileData' = WriteAt(fileData, wpos[p], SubSeq(chunk[p], 1, k))
        /\ wpos' = [wpos EXCEPT ![p] = @ + k]
    /\ Goto(p, "update")
    /\ UNCHANGED <<dirs, fileExists, argVars, netVars, verifyVars,
                   histVars, hasher>>

\* write_all fails after k bytes of the chunk (disk full, ...).
WriteChunkFail(p) ==
    /\ pc[p] = "write"
    /\ \E k \in 0..(Len(chunk[p]) - 1) :
        /\ fileData' = WriteAt(fileData, wpos[p], SubSeq(chunk[p], 1, k))
        /\ wpos' = [wpos EXCEPT ![p] = @ + k]
    /\ Return(p, IoError("write"))
    /\ UNCHANGED <<dirs, fileExists, argVars, netVars, verifyVars,
                   histVars, hasher>>

\* Mutant of UpdateHasher: the digest is taken over what the destination
\* holds instead of over the chunk received.
UpdateHasherFromFile(p) ==
    /\ pc[p] = "update"
    /\ hasher' = [hasher EXCEPT ![p] = HasherUpdate(NewHasher(@.alg), fileData)]
    /\ fed' = [fed EXCEPT ![p] = fileData]
    /\ Goto(p, "next")
    /\ UNCHANGED <<fsVars, argVars, netVars, verifyVars, file0, dirs0, skipped,
                   wopens, prev, wpos>>

\* hasher.update(&chunk);
UpdateHasher(p) ==
    /\ pc[p] = "update"
    /\ hasher' = [hasher EXCEPT ![p] = HasherUpdate(@, chunk[p])]
    /\ fed' = [fed EXCEPT ![p] = @ \o chunk[p]]
    /\ Goto(p, "next")
    /\ UNCHANGED <<fsVars, argVars, netVars, verifyVars, file0, dirs0, skipped,
                   wopens, prev, wpos>>

\* Mutant of FinalCheck: the digest is not compared.
FinalCheckNoCompare(p) ==
    /\ pc[p] = "final"
    /\ Return(p, Ok)
    /\ UNCHANGED <<fsVars, argVars, netVars, verifyVars, histVars, hasher, wpos>>

\* Mutant of FinalCheck: the function does not return after the loop.
FinalCheckNeverReturns(p) ==
    /\ pc[p] = "final"
    /\ UNCHANGED vars

\* Mutant of FinalCheck: an expected string of unknown length is not compared.
FinalCheckSkipsUnknownLength(p) ==
    /\ pc[p] = "final"
    /\ LET actual == HexEncode(HasherFinalize(hasher[p])) IN
       IF /\ expected_hash[p].some
          /\ Len(expected_hash[p].val) \in {Sha1HexLen, Sha256HexLen, Sha512HexLen}
          /\ actual # expected_hash[p].val
       THEN Return(p, HashMismatch(actual, expected_hash[p].val))
       ELSE Return(p, Ok)
    /\ UNCHANGED <<fsVars, argVars, netVars, verifyVars, histVars, hasher, wpos>>

\* Mutant of FinalCheck: a file that fails the comparison is removed.
FinalCheckRemovesOnMismatch(p) ==
    /\ pc[p] = "final"
    /\ LET actual == HexEncode(HasherFinalize(hasher[p])) IN
       IF expected_hash[p].some /\ actual # expected_hash[p].val
       THEN /\ Return(p, HashMismatch(actual, expected_hash[p].val))
            /\ fileExists' = FALSE
            /\ fileData' = <<>>
       ELSE /\ Return(p, Ok)
            /\ UNCHANGED <<fileExists, fileData>>
    /\ UNCHANGED <<dirs, argVars, netVars, verifyVars, histVars, hasher, wpos>>

\* if let Some(expected) = expected_hash { actual != expected => Err } Ok(())
FinalCheck(p) ==
    /\ pc[p] = "final"
    /\ LET actual == HexEncode(HasherFinalize(hasher[p])) IN
       IF expected_hash[p].some /\ actual # expected_hash[p].val
       THEN Return(p, HashMismatch(actual, expected_hash[p].val))
       ELSE Return(p, Ok)
    /\ UNCHANGED <<fsVars, argVars, netVars, verifyVars, histVars, hasher, wpos>>

\* One step inside the call p has in progress.
Run(p) ==
    \/ SkipCheck(p)
    \/ VerifyOpen(p)
    \/ VerifyOpenFail(p)
    \/ VerifyRead(p)
    \/ VerifyReadFail(p)
    \/ CreateDirAll(p)
    \/ CreateDirAllFail(p)
    \/ GetTransportError(p)
    \/ \E s \in Statuses :
         \E b \in (IF IsSuccess(s) THEN Contents ELSE {<<>>}) : GetResponse(p, s, b)
    \/ CheckStatus(p)
    \/ CreateFile(p)
    \/ CreateFileFail(p)
    \/ StreamNextChunk(p)
    \/ StreamEnd(p)
    \/ StreamError(p)
    \/ WriteChunk(p)
    \/ WriteChunkFail(p)
    \/ UpdateHasher(p)
    \/ FinalCheck(p)

\* One step of caller p: a call begins, advances, or is finished.
Step(p) ==
    \/ \E e \in ExpectedChoices, o \in BOOLEAN : Call(p, e, o)
    \/ Run(p)
    \/ Finish(p)

\* Fetches are called one after the other: no concurrent writer.
Next == \E p \in Callers : Step(p)

Spec == Init /\ [][Next]_vars

\* ---- verify_hash called on its own
NextVerify ==
    \E p \in Callers :
        \/ \E h \in VerifyStrings : VerifyCall(p, h)
        \/ VerifyOpen(p)
        \/ VerifyOpenFail(p)
        \/ VerifyRead(p)
        \/ VerifyReadFail(p)
        \/ Finish(p)

SpecVerify == Init /\ [][NextVerify]_vars

\* ---- a fetch that failed after opening the destination, called again
\* What the failed transfer left at the destination: a file whose digest is
\* not the expected one ("wrong"), a strict prefix of the body ("partial"),
\* or the whole body before an error ("whole").
Leftover(p) ==
    IF result[p].kind = "HashMismatch" THEN "wrong"
    ELSE IF fileData # response[p].body THEN "partial"
    ELSE "whole"

\* The caller answers a failure that left a file behind by calling
\* download_to_file(url, filepath, e, false) on the same destination.
Retry(p, e) ==
    /\ pc[p] = "done"
    /\ mode[p] = "fetch"
    /\ result[p].kind # "Ok"
    /\ wopens[p] > 0
    /\ prev' = Leftover(p)
    /\ pc' = [pc EXCEPT ![p] = "start"]
    /\ expected_hash' = [expected_hash EXCEPT ![p] = e]
    /\ override_file' = [override_file EXCEPT ![p] = FALSE]
    /\ result' = [result EXCEPT ![p] = NoResult]
    /\ response' = [response EXCEPT ![p] = NoResponse]
    /\ stream' = [stream EXCEPT ![p] = <<>>]
    /\ chunk' = [chunk EXCEPT ![p] = <<>>]
    /\ hasher' = [hasher EXCEPT ![p] = NewHasher("None")]
    /\ wpos' = [wpos EXCEPT ![p] = 0]
    /\ vhasher' = [vhasher EXCEPT ![p] = NewHasher("None")]
    /\ vpos' = [vpos EXCEPT ![p] = 0]
    /\ file0' = [file0 EXCEPT ![p] = [exists |-> fileExists, data |-> fileData]]
    /\ dirs0' = [dirs0 EXCEPT ![p] = dirs]
    /\ requests' = [requests EXCEPT ![p] = 0]
    /\ skipped' = [skipped EXCEPT ![p] = FALSE]
    /\ wopens' = [wopens EXCEPT ![p] = 0]
    /\ received' = [received EXCEPT ![p] = <<>>]
    /\ verified' = [verified EXCEPT ![p] = "none"]
    /\ fed' = [fed EXCEPT ![p] = <<>>]
    /\ UNCHANGED <<fsVars, mode>>

\* The destination does not exist before the first fetch.
InitFresh == Init /\ ~fileExists

\* The expected digests of the retried fetches: absent, empty, the SHA-1
\* digest of some content, or a digest of no content.
RetryChoices ==
    {None, Some(<<>>), Some(AllZero40)}
        \cup {Some(HexDigest("Sha1", c)) : c \in Contents}

NextRetry ==
    \E p \in Callers :
        \/ \E e \in RetryChoices, o \in BOOLEAN : Call(p, e, o)
        \/ Run(p)
        \/ \E e \in RetryChoices : Retry(p, e)

SpecRetry == InitFresh /\ [][NextRetry]_vars

\* ---- a fetch that succeeded with a digest, called again
\* The caller repeats a successful download_to_file(url, filepath, Some(h),
\* _) with the same destination and digest and override_file = false.
Repeat(p) ==
    /\ pc[p] = "done"
    /\ mode[p] = "fetch"
    /\ result[p] = Ok
    /\ expected_hash[p].some
    /\ Len(expected_hash[p].val) \in {Sha1HexLen, Sha256HexLen, Sha512HexLen}
    /\ prev' = "ok"
    /\ pc' = [pc EXCEPT ![p] = "start"]
    /\ override_file' = [override_file EXCEPT ![p] = FALSE]
    /\ result' = [result EXCEPT ![p] = NoResult]
    /\ response' = [response EXCEPT ![p] = NoResponse]
    /\ stream' = [stream EXCEPT ![p] = <<>>]
    /\ chunk' = [chunk EXCEPT ![p] = <<>>]
    /\ hasher' = [hasher EXCEPT ![p] = NewHasher("None")]
    /\ wpos' = [wpos EXCEPT ![p] = 0]
    /\ vhasher' = [vhasher EXCEPT ![p] = NewHasher("None")]
    /\ vpos' = [vpos EXCEPT ![p] = 0]
    /\ file0' = [file0 EXCEPT ![p] = [exists |-> fileExists, data |-> fileData]]
    /\ dirs0' = [dirs0 EXCEPT ![p] = dirs]
    /\ requests' = [requests EXCEPT ![p] = 0]
    /\ skipped' = [skipped EXCEPT ![p] = FALSE]
    /\ wopens' = [wopens EXCEPT ![p] = 0]
    /\ received' = [received EXCEPT ![p] = <<>>]
    /\ verified' = [verified EXCEPT ![p] = "none"]
    /\ fed' = [fed EXCEPT ![p] = <<>>]
    /\ UNCHANGED <<fsVars, expected_hash, mode>>

NextRepeat ==
    \E p \in Callers :
        \/ \E e \in ExpectedChoices, o \in BOOLEAN : Call(p, e, o)
        \/ Run(p)
        \/ Repeat(p)

SpecRepeat == Init /\ [][NextRepeat]_vars

\* ---- two fetches of the same destination at the same time
\* Each caller's steps interleave with the other's at the grain of the
\* system calls; nothing in download_to_file locks the destination.
\* The servers answer 200 with a one-byte body, and the callers expect the
\* SHA-1 digest of such a body.
ConcurrentBodies == {c \in Contents : Len(c) = 1}
ConcurrentChoices == {Some(HexDigest("Sha1", c)) : c \in ConcurrentBodies}

NextConcurrent ==
    \E p \in Procs :
        \/ \E e \in ConcurrentChoices, o \in BOOLEAN : Call(p, e, o)
        \/ SkipCheck(p)
        \/ VerifyOpen(p)
        \/ VerifyOpenFail(p)
        \/ VerifyRead(p)
        \/ VerifyReadFail(p)
        \/ CreateDirAll(p)
        \/ CreateDirAllFail(p)
        \/ GetTransportError(p)
        \/ \E b \in ConcurrentBodies : GetResponse(p, 200, b)
        \/ CheckStatus(p)
        \/ CreateFile(p)
        \/ CreateFileFail(p)
        \/ StreamNextChunk(p)
        \/ StreamEnd(p)
        \/ StreamError(p)
        \/ WriteChunk(p)
        \/ WriteChunkFail(p)
        \/ UpdateHasher(p)
        \/ FinalCheck(p)

SpecConcurrent == InitFresh /\ [][NextConcurrent]_vars

\* ---- one fetch under the scheduling the code and its environment give
\* The steps download_to_file takes by itself: once it is at one of them
\* the system call or comparison happens, well or badly.
OwnStep(p) ==
    \/ SkipCheck(p)
    \/ VerifyOpen(p)
    \/ VerifyOpenFail(p)
    \/ VerifyRead(p)
    \/ VerifyReadFail(p)
    \/ CreateDirAll(p)
    \/ CreateDirAllFail(p)
    \/ CheckStatus(p)
    \/ CreateFile(p)
    \/ CreateFileFail(p)
    \/ WriteChunk(p)
    \/ WriteChunkFail(p)
    \/ UpdateHasher(p)
    \/ FinalCheck(p)

\* reqwest::get(url).await completes, with a response or with an error.
TransportAnswers(p) ==
    \/ GetTransportError(p)
    \/ \E s \in Statuses :
         \E b \in (IF IsSuccess(s) THEN Contents ELSE {<<>>}) : GetResponse(p, s, b)

\* stream.next().await yields None or Some(Err(e)).
StreamStops(p) == StreamEnd(p) \/ StreamError(p)

NextLive ==
    \E p \in Callers :
        \/ \E e \in RetryChoices, o \in BOOLEAN : Call(p, e, o)
        \/ Run(p)

\* The task is polled to completion; the transport eventually answers the
\* request; the body stream, however many chunks it yields, eventually ends
\* or fails.
Fairness ==
    \A p \in Callers :
        /\ WF_vars(OwnStep(p))
        /\ WF_vars(TransportAnswers(p))
        /\ SF_vars(StreamStops(p))

SpecLive == Init /\ [][NextLive]_vars /\ Fairness

\* ================================================================ claims
\* The vocabulary of the claims: the algorithm a digest length stands for,
\* the digest a byte string has under the algorithm of an expected string's
\* length, and the destination being as it was when the call began.
AlgForLength(n) ==
    CASE n = Sha1HexLen -> "Sha1"
      [] n = Sha256HexLen -> "Sha256"
      [] n = Sha512HexLen -> "Sha512"
      [] OTHER -> "None"
Supported(h) == Len(h) \in {Sha1HexLen, Sha256HexLen, Sha512HexLen}
TrueDigest(h, data) == HexDigest(AlgForLength(Len(h)), data)
Matching(data, h) == TrueDigest(h, data) = h
FileAsBefore(p) == fileExists = file0[p].exists /\ fileData = file0[p].data
PrecheckIoError(p) ==
    result[p].kind = "IoError" /\ result[p].op \in {"open", "read"}
VerifyReturned(p) == pc[p] = "done" /\ mode[p] = "verify"
VerifyIoError(p) ==
    result[p] \in {IoError("open"), IoError("read")}

\* C1: whenever a fetch has returned success with an expected digest of
\* length 40, 64 or 128, the destination exists and the digest of its
\* content (SHA-1 / SHA-256 / SHA-512 by length) equals the expected digest,
\* on the skip path and on the network path alike.
C1_SuccessMeansDigestMatches ==
    \A p \in Procs :
        (/\ pc[p] = "done"
         /\ result[p] = Ok
         /\ expected_hash[p].some
         /\ Supported(expected_hash[p].val))
        => /\ fileExists
           /\ TrueDigest(expected_hash[p].val, fileData) = expected_hash[p].val

\* A transfer in two chunks verified against a SHA-256 digest.
C1_Witness ==
    \E p \in Procs :
        /\ pc[p] = "done" /\ result[p] = Ok /\ requests[p] = 1
        /\ expected_hash[p].some
        /\ Len(expected_hash[p].val) = Sha256HexLen
        /\ Len(received[p]) = 2 /\ Len(chunk[p]) = 1

\* C2: whenever a fetch that made a network transfer has returned success,
\* the destination holds exactly the response body, which is the chunks
\* received concatenated in arrival order; nothing of the old content stays.
C2_FileIsResponseBody ==
    \A p \in Procs :
        (pc[p] = "done" /\ result[p] = Ok /\ requests[p] >= 1)
        => /\ fileExists
           /\ fileData = received[p]
           /\ received[p] = response[p].body
           /\ stream[p] = <<>>

\* A one-byte body replaces a two-byte destination.
C2_Witness ==
    \E p \in Procs :
        /\ pc[p] = "done" /\ result[p] = Ok /\ requests[p] = 1
        /\ file0[p].exists /\ Len(file0[p].data) = 2
        /\ Len(received[p]) = 1

\* C3 as stated: with overwrite=false and an existing destination whose
\* content matches the expected digest (a digest of supported length), the
\* fetch has issued no request and returns success.
C3_AsStated ==
    \A p \in Procs :
        (/\ pc[p] = "done"
         /\ ~override_file[p]
         /\ file0[p].exists
         /\ expected_hash[p].some
         /\ Supported(expected_hash[p].val)
         /\ Matching(file0[p].data, expected_hash[p].val))
        => result[p] = Ok /\ requests[p] = 0

\* C3 as amended: with overwrite=false and an existing destination whose
\* content matches the expected digest, the fetch never issues a request,
\* and it returns success through the skip rule unless opening or reading
\* the existing file failed, in which case it returns that I/O error.
C3_SkipWhenMatching ==
    \A p \in Procs :
        (/\ pc[p] # "idle"
         /\ ~override_file[p]
         /\ file0[p].exists
         /\ expected_hash[p].some
         /\ Matching(file0[p].data, expected_hash[p].val))
        => /\ requests[p] = 0
           /\ pc[p] \in {"start", "verify_open", "verify_read", "done"}
           /\ pc[p] = "done" =>
                \/ result[p] = Ok /\ skipped[p]
                \/ PrecheckIoError(p)

\* A two-byte destination accepted against its own digest.
C3_Witness ==
    \E p \in Procs :
        /\ pc[p] = "done" /\ result[p] = Ok /\ skipped[p]
        /\ verified[p] = "true"
        /\ Supported(expected_hash[p].val)
        /\ Len(file0[p].data) = 2

\* C4: with overwrite=false, an existing destination and no expected digest,
\* the fetch issues no request, goes nowhere but to its return, returns
\* success and leaves the destination as it was, whatever its content.
C4_SkipWithoutDigest ==
    \A p \in Procs :
        (/\ pc[p] # "idle"
         /\ ~override_file[p]
         /\ file0[p].exists
         /\ ~expected_hash[p].some)
        => /\ requests[p] = 0
           /\ pc[p] \in {"start", "done"}
           /\ FileAsBefore(p)
           /\ pc[p] = "done" => (result[p] = Ok /\ skipped[p])

\* A non-empty destination accepted without a digest.
C4_Witness ==
    \E p \in Procs :
        /\ pc[p] = "done" /\ result[p] = Ok /\ skipped[p]
        /\ ~expected_hash[p].some
        /\ Len(file0[p].data) = 2

\* C5 as stated: with overwrite=false and an existing destination that does
\* not match the expected digest (taken here among the strings of supported
\* length), the fetch has issued exactly one request
\* when it returns, a mismatch it reports is that of the transferred body,
\* and on success the destination holds the response body.
C5_AsStated ==
    \A p \in Procs :
        (/\ pc[p] = "done"
         /\ ~override_file[p]
         /\ file0[p].exists
         /\ expected_hash[p].some
         /\ Supported(expected_hash[p].val)
         /\ ~Matching(file0[p].data, expected_hash[p].val))
        => /\ requests[p] = 1
           /\ result[p].kind = "HashMismatch" =>
                result[p].got = TrueDigest(expected_hash[p].val, response[p].body)
           /\ result[p] = Ok => (fileExists /\ fileData = response[p].body)

\* C5 as amended: the same for every expected string the destination does
\* not match, unless opening or reading the existing file failed during the
\* pre-check; then the fetch returns that I/O error and has issued no request.
C5_RefetchWhenNotMatching ==
    \A p \in Procs :
        (/\ pc[p] = "done"
         /\ ~override_file[p]
         /\ file0[p].exists
         /\ expected_hash[p].some
         /\ ~Matching(file0[p].data, expected_hash[p].val))
        => IF PrecheckIoError(p)
           THEN requests[p] = 0
           ELSE /\ requests[p] = 1
                /\ verified[p] = "false"
                /\ result[p].kind = "HashMismatch" =>
                     result[p].got = TrueDigest(expected_hash[p].val, response[p].body)
                /\ result[p] = Ok => (fileExists /\ fileData = response[p].body)

\* A destination that failed the pre-check, fetched again and replaced.
C5_Witness ==
    \E p \in Procs :
        /\ pc[p] = "done" /\ result[p] = Ok /\ requests[p] = 1
        /\ verified[p] = "false"
        /\ Len(file0[p].data) = 2
        /\ fileData # file0[p].data

\* C6 as stated: a fetch with overwrite=true has issued the request when it
\* returns, and never takes the skip path.
C6_AsStated ==
    \A p \in Procs :
        (pc[p] = "done" /\ override_file[p])
        => requests[p] = 1 /\ ~skipped[p]

\* C6 as amended: a fetch with overwrite=true never runs the skip check and
\* never returns through the skip rule, for every prior state of the
\* destination; it has issued the request when it returns, unless creating
\* the missing parent directories failed, in which case it returns that I/O
\* error without a request.
C6_OverwriteNeverSkips ==
    \A p \in Procs :
        (pc[p] # "idle" /\ override_file[p])
        => /\ ~skipped[p]
           /\ verified[p] = "none"
           /\ pc[p] \notin {"verify_open", "verify_read"}
           /\ pc[p] = "done" =>
                \/ requests[p] = 1
                \/ /\ requests[p] = 0
                   /\ result[p] = IoError("create_dir_all")
                   /\ dirs0[p] < MaxDepth

\* The destination already held valid content, and the request was issued.
C6_Witness ==
    \E p \in Procs :
        /\ pc[p] = "done" /\ override_file[p] /\ requests[p] = 1
        /\ file0[p].exists
        /\ expected_hash[p].some
        /\ Supported(expected_hash[p].val)
        /\ Matching(file0[p].data, expected_hash[p].val)

\* C7: the step that follows the end of the body, taken with an expected
\* digest that differs from the digest of the body received, returns a
\* mismatch failure carrying the computed and the expected hex strings
\* (never success).
C7_MismatchIsReported ==
    [][\A p \in Procs :
          (/\ pc[p] = "final"
           /\ pc'[p] = "done"
           /\ expected_hash[p].some
           /\ TrueDigest(expected_hash[p].val, received[p]) # expected_hash[p].val)
          => /\ result'[p].kind = "HashMismatch"
             /\ result'[p].got = TrueDigest(expected_hash[p].val, received[p])
             /\ result'[p].want = expected_hash[p].val]_vars

\* A two-byte body checked against the all-zero 40-character string.
C7_Witness ==
    \E p \in Procs :
        /\ pc[p] = "done" /\ result[p].kind = "HashMismatch"
        /\ result[p].want = AllZero40
        /\ Len(result[p].got) = Sha1HexLen
        /\ result[p].got # result[p].want
        /\ Len(received[p]) = 2

\* C8: once the response has a non-success status, the fetch returns a
\* failure carrying that status code, and the destination is as it was
\* before the call: not created, not truncated, not written.
C8_StatusFailureLeavesFile ==
    \A p \in Procs :
        (/\ pc[p] \in {"status", "done"}
         /\ response[p].status # 0
         /\ ~IsSuccess(response[p].status))
        => /\ FileAsBefore(p)
           /\ wopens[p] = 0
           /\ pc[p] = "done" => result[p] = StatusError(response[p].status)

\* A 404 with a two-byte destination in place.
C8_Witness ==
    \E p \in Procs :
        /\ pc[p] = "done" /\ result[p].kind = "StatusError"
        /\ result[p].code = 404
        /\ file0[p].exists /\ Len(file0[p].data) = 2

\* C9: past create_dir_all every parent directory exists, so they all exist
\* before the destination is opened for writing, at any depth; and a fetch
\* that returns the create_dir_all error has issued no request and has not
\* touched the destination.
C9_ParentsBeforeFile ==
    \A p \in Procs :
        /\ pc[p] \in {"get", "status", "create", "next", "write", "update", "final"}
             => dirs = MaxDepth
        /\ (wopens[p] > 0 \/ requests[p] > 0) => dirs = MaxDepth
        /\ (pc[p] = "done" /\ dirs < MaxDepth)
             => /\ result[p] = IoError("create_dir_all")
                /\ requests[p] = 0
                /\ wopens[p] = 0
                /\ FileAsBefore(p)

\* A destination none of whose parent directories existed, written.
C9_Witness ==
    \E p \in Procs :
        /\ pc[p] = "done" /\ result[p] = Ok
        /\ dirs0[p] = 0 /\ dirs = MaxDepth
        /\ fileExists /\ Len(fileData) >= 1

C11_WriteThenFeedInOrder ==
    \A p \in Procs :
        /\ pc[p] \in {"next", "write", "update", "final"}
             => /\ received[p] \o stream[p] = response[p].body
                /\ hasher[p] = HasherUpdate(FetchSelectHasher(expected_hash[p]), fed[p])
                /\ wpos[p] = Len(fileData)
        /\ pc[p] \in {"next", "final"}
             => /\ fileData = received[p]
                /\ fed[p] = received[p]
        /\ pc[p] = "write"
             => /\ fileData \o chunk[p] = received[p]
                /\ fed[p] \o chunk[p] = received[p]
        /\ pc[p] = "update"
             => /\ fileData = received[p]
                /\ fed[p] \o chunk[p] = received[p]

\* The fetch waits for a third chunk after two chunks with different bytes.
C11_Witness ==
    \E p \in Procs :
        /\ pc[p] = "next"
        /\ Len(fed[p]) = 2 /\ Len(chunk[p]) = 1
        /\ fed[p][1] # fed[p][2]
        /\ fileData = fed[p]
        /\ expected_hash[p].some /\ Supported(expected_hash[p].val)

\* C12: a fetch that returned a write error or a transport error of the body
\* stream has failed at once: no chunk was taken from the stream after the
\* error, the destination exists and holds the bytes written so far, which
\* are a prefix of the body (all chunks received on a transport error, the
\* chunks before the failing one and what was written of it on a write
\* error), and nothing has restored the content before the call.
C12_BodyErrorLeavesPrefix ==
    \A p \in Procs :
        (/\ pc[p] = "done"
         /\ result[p] \in {IoError("write"), HttpError("stream")})
        => /\ requests[p] = 1
           /\ wopens[p] = 1
           /\ fileExists
           /\ IsPrefix(fileData, response[p].body)
           /\ Len(fileData) = wpos[p]
           /\ received[p] \o stream[p] = response[p].body
           /\ result[p] = HttpError("stream") => fileData = received[p]
           /\ result[p] = IoError("write")
                => /\ IsPrefix(fed[p], fileData)
                   /\ fed[p] \o chunk[p] = received[p]
                   /\ Len(fileData) < Len(received[p])

\* A transport error after one chunk of a two-byte body, over a destination
\* that held two other bytes: one byte is left.
C12_Witness ==
    \E p \in Procs :
        /\ pc[p] = "done" /\ result[p] = HttpError("stream")
        /\ Len(response[p].body) = 2 /\ Len(fileData) = 1
        /\ file0[p].exists /\ Len(file0[p].data) = 2
        /\ file0[p].data[1] # fileData[1]

\* C13 as stated: the fetch (overwrite=false) that follows a failed fetch
\* which left a partial or wrong file has, when it returns, issued a
\* network request for it.
C13_AsStated ==
    \A p \in Procs :
        (pc[p] = "done" /\ prev \in {"partial", "wrong"} /\ ~override_file[p])
        => requests[p] = 1

\* C13: the fetch (overwrite=false) that follows a failed fetch which left a
\* partial or wrong file goes to the network exactly when it supplies an
\* expected digest, the file can be read and its digest is not the expected
\* one; without an expected digest it accepts the file with no request, with
\* a digest the file happens to match it accepts it too, and a file that
\* cannot be read makes it fail with no request.
C13_LeftoverRefetchedOnMismatch ==
    \A p \in Procs :
        (pc[p] = "done" /\ prev \in {"partial", "wrong"} /\ ~override_file[p])
        => /\ file0[p].exists
           /\ (/\ expected_hash[p].some
               /\ ~ PrecheckIoError(p)
               /\ HexDigest(VerifySelectHasher(expected_hash[p].val).alg, file0[p].data)
                      # expected_hash[p].val)
                 => (verified[p] = "false" /\ requests[p] = 1 /\ ~ skipped[p])
           /\ ~ expected_hash[p].some
                 => (result[p] = Ok /\ skipped[p] /\ requests[p] = 0 /\ FileAsBefore(p))
           /\ PrecheckIoError(p) => requests[p] = 0

\* A one-byte prefix of a two-byte body, left by a failed transfer, is found
\* not to have the expected SHA-1 digest, and the body is fetched whole.
C13_Witness ==
    \E p \in Procs :
        /\ pc[p] = "done" /\ prev = "partial" /\ ~override_file[p]
        /\ Len(file0[p].data) = 1
        /\ Len(expected_hash[p].val) = Sha1HexLen
        /\ verified[p] = "false" /\ requests[p] = 1
        /\ result[p] = Ok /\ Len(fileData) = 2

\* C14 as stated: verify_hash of a file against the lowercase hex digest of
\* its contents, of length 40, 64 or 128, returns true.
C14_AsStated ==
    \A p \in Procs :
        (/\ VerifyReturned(p)
         /\ fileExists
         /\ Supported(expected_hash[p].val)
         /\ expected_hash[p].val = TrueDigest(expected_hash[p].val, fileData))
        => result[p] = OkBool(TRUE)

\* C14: verify_hash of a file against the lowercase hex digest of its
\* contents, of length 40, 64 or 128, returns true, or the I/O error of
\* opening or reading the file; it never returns false.
C14_TrueOnOwnDigest ==
    \A p \in Procs :
        (/\ VerifyReturned(p)
         /\ fileExists
         /\ Supported(expected_hash[p].val)
         /\ expected_hash[p].val = TrueDigest(expected_hash[p].val, fileData))
        => /\ result[p] = OkBool(TRUE) \/ VerifyIoError(p)
           /\ result[p] = OkBool(TRUE) => vpos[p] = Len(fileData)

\* A two-byte file read to its end and found to have its SHA-512 digest.
C14_Witness ==
    \E p \in Procs :
        /\ VerifyReturned(p) /\ result[p] = OkBool(TRUE)
        /\ Len(expected_hash[p].val) = Sha512HexLen
        /\ Len(fileData) = 2 /\ vpos[p] = 2

\* C15 as stated: verify_hash of a file against a string of length 40, 64
\* or 128 other than the file's digest returns false, not an error.
C15_AsStated ==
    \A p \in Procs :
        (/\ VerifyReturned(p)
         /\ fileExists
         /\ Supported(expected_hash[p].val)
         /\ expected_hash[p].val # TrueDigest(expected_hash[p].val, fileData))
        => result[p] = OkBool(FALSE)

\* C15: verify_hash of a file against a string of length 40, 64 or 128
\* other than the file's digest (the digest of other contents, the digest in
\* uppercase, zeros) returns false, or the I/O error of opening or reading
\* the file; it never returns true.
C15_FalseOnOtherDigest ==
    \A p \in Procs :
        (/\ VerifyReturned(p)
         /\ fileExists
         /\ Supported(expected_hash[p].val)
         /\ expected_hash[p].val # TrueDigest(expected_hash[p].val, fileData))
        => /\ result[p] = OkBool(FALSE) \/ VerifyIoError(p)
           /\ result[p] = OkBool(FALSE) => vpos[p] = Len(fileData)

\* A file verified against its own SHA-256 digest spelled in uppercase.
C15_Witness ==
    \E p \in Procs :
        /\ VerifyReturned(p) /\ result[p] = OkBool(FALSE)
        /\ Len(fileData) >= 1
        /\ Len(expected_hash[p].val) = Sha256HexLen
        /\ expected_hash[p].val # TrueDigest(expected_hash[p].val, fileData)
        /\ expected_hash[p].val = UpperCase(TrueDigest(expected_hash[p].val, fileData))

\* C16: verify_hash with the empty expected string selects the None
\* variant, and for every file it has opened and read without error,
\* whatever the content, it returns true.
C16_EmptyExpectedVerifies ==
    \A p \in Procs :
        /\ (/\ mode[p] = "verify"
            /\ pc[p] \in {"verify_read", "done"}
            /\ expected_hash[p].val = <<>>
            /\ result[p] # IoError("open"))
           => /\ vhasher[p] = NewHasher("None")
              /\ HexEncode(HasherFinalize(vhasher[p])) = <<>>
        /\ (/\ VerifyReturned(p)
            /\ expected_hash[p].val = <<>>
            /\ ~ VerifyIoError(p))
           => result[p] = OkBool(TRUE)

\* A two-byte file read to its end with the empty expected string.
C16_Witness ==
    \E p \in Procs :
        /\ VerifyReturned(p) /\ result[p] = OkBool(TRUE)
        /\ expected_hash[p].val = <<>>
        /\ Len(fileData) = 2 /\ vpos[p] = 2

\* C17 as stated: verify_hash against a string whose length is not 0, 40,
\* 64 or 128 returns false for every file content.
C17_AsStated ==
    \A p \in Procs :
        (/\ VerifyReturned(p)
         /\ fileExists
         /\ expected_hash[p].val # <<>>
         /\ ~ Supported(expected_hash[p].val))
        => result[p] = OkBool(FALSE)

\* C17: verify_hash against a string whose length is not 0, 40, 64 or 128
\* selects the None variant and returns false, or the I/O error of opening
\* or reading the file; it never returns true.
C17_UnknownLengthNeverVerifies ==
    \A p \in Procs :
        (/\ VerifyReturned(p)
         /\ fileExists
         /\ expected_hash[p].val # <<>>
         /\ ~ Supported(expected_hash[p].val))
        => /\ result[p] = OkBool(FALSE) \/ VerifyIoError(p)
           /\ result[p] # IoError("open") => vhasher[p] = NewHasher("None")

\* A file verified against its SHA-1 digest cut to 39 characters.
C17_Witness ==
    \E p \in Procs :
        /\ VerifyReturned(p) /\ result[p] = OkBool(FALSE)
        /\ Len(expected_hash[p].val) = Sha1HexLen - 1
        /\ expected_hash[p].val
             = SubSeq(HexDigest("Sha1", fileData), 1, Sha1HexLen - 1)

\* C18: whatever the sizes of the chunks of a transfer, or of the reads of a
\* verification (empty chunks and no chunk at all included), the accumulator
\* updated chunk by chunk is the accumulator after one update with all the
\* bytes fed so far, and where the code finalizes it (after the last chunk,
\* at end of file) the digest is the digest of that single update.
C18_StreamingFold ==
    \A p \in Procs :
        /\ (pc[p] \in {"next", "write", "update", "final"} \/ wopens[p] > 0)
             => hasher[p] = HasherUpdate(NewHasher(hasher[p].alg), fed[p])
        /\ pc[p] = "final"
             => HasherFinalize(hasher[p])
                  = HasherFinalize(HasherUpdate(NewHasher(hasher[p].alg), fed[p]))
        /\ (pc[p] = "verify_read" \/ verified[p] # "none")
             => vhasher[p] = HasherUpdate(NewHasher(vhasher[p].alg),
                                          SubSeq(file0[p].data, 1, vpos[p]))
        /\ (pc[p] = "verify_read" /\ vpos[p] = Len(fileData))
             => HasherFinalize(vhasher[p])
                  = HasherFinalize(HasherUpdate(NewHasher(vhasher[p].alg), fileData))

\* A SHA-256 accumulator finalized after two one-byte chunks.
C18_Witness ==
    \E p \in Procs :
        /\ pc[p] = "final"
        /\ hasher[p].alg = "Sha256"
        /\ Len(fed[p]) = 2 /\ Len(chunk[p]) = 1
        /\ fed[p][1] # fed[p][2]

\* The two selections applied to every string verify_hash is called with.
SelectionsOfStrings ==
    /\ \A h \in VerifyStrings :
          /\ FetchSelectHasher(Some(h)) = VerifySelectHasher(h)
          /\ VerifySelectHasher(h) = NewHasher(AlgForLength(Len(h)))
    /\ FetchSelectHasher(None) = NewHasher("None")

\* C19: the selection in download_to_file and the selection in verify_hash
\* give the same variant for every expected string: SHA-1 for 40
\* characters, SHA-256 for 64, SHA-512 for 128, None for any other length;
\* a fetch without expected digest selects None; a fetch that verified the
\* existing file and then fetched it used the same variant both times.
C19_SelectionSitesAgree ==
    /\ SelectionsOfStrings
    /\ \A p \in Procs :
          /\ (wopens[p] > 0 /\ verified[p] = "false")
               => hasher[p].alg = vhasher[p].alg
          /\ (wopens[p] > 0 /\ ~ expected_hash[p].some)
               => hasher[p].alg = "None"
          /\ (wopens[p] > 0 /\ expected_hash[p].some)
               => hasher[p].alg = AlgForLength(Len(expected_hash[p].val))

\* An existing file failed its SHA-512 check and was fetched with SHA-512.
C19_Witness ==
    \E p \in Procs :
        /\ pc[p] = "done" /\ wopens[p] = 1 /\ verified[p] = "false"
        /\ vhasher[p].alg = "Sha512" /\ hasher[p].alg = "Sha512"
        /\ Len(fed[p]) >= 1

\* C20: a fetch issues at most one HTTP request and opens the destination
\* for writing at most once; a transport failure, a non-success status, a
\* filesystem failure and a digest mismatch each end the call with that
\* failure as its result, and success is returned only by the skip rule or
\* after the whole body was written and, if a digest was expected, matched.
C20_NoInternalRetry ==
    \A p \in Procs :
        /\ requests[p] <= 1
        /\ wopens[p] <= 1
        /\ pc[p] = "done"
             => /\ result[p].kind
                     \in {"Ok", "IoError", "HttpError", "StatusError", "HashMismatch"}
                /\ (requests[p] = 1 /\ response[p] = NoResponse)
                     => result[p] = HttpError("get")
                /\ (requests[p] = 1 /\ response[p] # NoResponse
                       /\ ~ IsSuccess(response[p].status))
                     => result[p] = StatusError(response[p].status)
                /\ (wopens[p] = 1 /\ expected_hash[p].some
                       /\ result[p] \notin {IoError("write"), HttpError("stream")}
                       /\ HexEncode(HasherFinalize(hasher[p])) # expected_hash[p].val)
                     => result[p].kind = "HashMismatch"
                /\ (result[p] = Ok /\ ~ skipped[p])
                     => /\ requests[p] = 1
                        /\ IsSuccess(response[p].status)
                        /\ wopens[p] = 1
                        /\ fileData = response[p].body
                /\ result[p].kind # "Ok" => ~ skipped[p]

\* A transport failure of the one request, returned as the call's result.
C20_Witness ==
    \E p \in Procs :
        /\ pc[p] = "done" /\ result[p] = HttpError("get")
        /\ requests[p] = 1 /\ wopens[p] = 0
        /\ file0[p].exists /\ FileAsBefore(p)

\* C21: verify_hash returns true, false, or the I/O error of opening or of
\* reading the file; a path that does not exist gives the error of opening;
\* a return before the end of the file is an error, never false; false is
\* returned only when the file was read to its end and its digest under the
\* selected variant is not the expected string.
C21_ErrorsAreNotFalse ==
    \A p \in Procs :
        VerifyReturned(p)
        => /\ result[p] \in {OkBool(TRUE), OkBool(FALSE),
                               IoError("open"), IoError("read")}
           /\ ~ fileExists => result[p] = IoError("open")
           /\ vpos[p] < Len(fileData) => VerifyIoError(p)
           /\ VerifyIoError(p) => verified[p] = "none"
           /\ result[p] = OkBool(FALSE)
                => /\ fileExists
                   /\ vpos[p] = Len(fileData)
                   /\ HexDigest(VerifySelectHasher(expected_hash[p].val).alg, fileData)
                        # expected_hash[p].val

\* A read error after one byte of a two-byte file was read.
C21_Witness ==
    \E p \in Procs :
        /\ VerifyReturned(p) /\ result[p] = IoError("read")
        /\ Len(fileData) = 2 /\ vpos[p] = 1
        /\ Supported(expected_hash[p].val)

\* C22 as stated: the fetch that repeats a successful fetch with the same
\* destination and supported digest and overwrite=false issues no request,
\* returns success and leaves the destination unchanged.
C22_AsStated ==
    \A p \in Procs :
        (pc[p] = "done" /\ prev = "ok")
        => /\ requests[p] = 0
           /\ result[p] = Ok
           /\ FileAsBefore(p)

\* C22: the fetch that repeats a successful fetch with the same destination
\* and supported digest and overwrite=false finds the destination existing
\* with the expected digest; it issues no request, creates no directory,
\* does not write the destination, and returns success through the skip
\* rule, or the I/O error of opening or reading the file in the skip check.
C22_RepeatAfterSuccessSkips ==
    \A p \in Procs :
        /\ (prev = "ok" /\ pc[p] \in {"start", "verify_open", "verify_read", "done"})
             => /\ file0[p].exists
                /\ Matching(file0[p].data, expected_hash[p].val)
                /\ requests[p] = 0
                /\ wopens[p] = 0
                /\ dirs = dirs0[p]
                /\ FileAsBefore(p)
        /\ prev = "ok" => pc[p] \in {"idle", "start", "verify_open", "verify_read", "done"}
        /\ (prev = "ok" /\ pc[p] = "done")
             => \/ result[p] = Ok /\ skipped[p] /\ verified[p] = "true"
                \/ PrecheckIoError(p)

\* A two-byte body fetched against its SHA-256 digest, and the fetch
\* repeated: the file is read and accepted.
C22_Witness ==
    \E p \in Procs :
        /\ pc[p] = "done" /\ prev = "ok"
        /\ result[p] = Ok /\ skipped[p] /\ requests[p] = 0
        /\ Len(expected_hash[p].val) = Sha256HexLen
        /\ Len(fileData) = 2 /\ vpos[p] = 2

\* C23: a fetch that returned the I/O error of opening or reading the
\* existing destination in the skip check had overwrite=false and an
\* expected digest, and has issued no request, created no directory and not
\* touched the destination; and a fetch with an existing destination,
\* overwrite=false and an expected digest is on the network path only after
\* verify_hash returned false.
C23_SkipCheckErrorIsReturned ==
    \A p \in Procs :
        /\ (pc[p] = "done" /\ PrecheckIoError(p))
             => /\ file0[p].exists /\ ~ override_file[p] /\ expected_hash[p].some
                /\ verified[p] = "none"
                /\ ~ skipped[p]
                /\ requests[p] = 0
                /\ wopens[p] = 0
                /\ dirs = dirs0[p]
                /\ FileAsBefore(p)
        /\ (/\ file0[p].exists /\ ~ override_file[p] /\ expected_hash[p].some
            /\ \/ pc[p] \in {"mkdirs", "get", "status", "create", "next",
                               "write", "update", "final"}
               \/ requests[p] > 0
               \/ wopens[p] > 0)
             => verified[p] = "false"

\* A read error after one byte of a two-byte destination was hashed.
C23_Witness ==
    \E p \in Procs :
        /\ pc[p] = "done" /\ mode[p] = "fetch" /\ result[p] = IoError("read")
        /\ Len(fileData) = 2 /\ vpos[p] = 1
        /\ requests[p] = 0

\* C24: a fetch that returned a digest mismatch has left the whole response
\* body in the destination, the body whose digest the error carries; the
\* content before the call is gone, also when it had the expected digest.
C24_MismatchLeavesBody ==
    \A p \in Procs :
        (pc[p] = "done" /\ result[p].kind = "HashMismatch")
        => /\ requests[p] = 1 /\ wopens[p] = 1
           /\ fileExists
           /\ fileData = response[p].body
           /\ stream[p] = <<>>
           /\ result[p].got = HexDigest(hasher[p].alg, fileData)
           /\ result[p].want = expected_hash[p].val
           /\ result[p].got # result[p].want
           /\ (file0[p].exists /\ Supported(expected_hash[p].val)
                 /\ Matching(file0[p].data, expected_hash[p].val))
                => fileData # file0[p].data

\* overwrite=true over a destination that had the expected SHA-1 digest: a
\* one-byte body with another digest has replaced its two bytes.
C24_Witness ==
    \E p \in Procs :
        /\ pc[p] = "done" /\ result[p].kind = "HashMismatch"
        /\ override_file[p]
        /\ Len(expected_hash[p].val) = Sha1HexLen
        /\ file0[p].exists /\ Len(file0[p].data) = 2
        /\ Matching(file0[p].data, expected_hash[p].val)
        /\ Len(fileData) = 1

UnknownLength(p) ==
    /\ mode[p] = "fetch"
    /\ expected_hash[p].some
    /\ expected_hash[p].val # <<>>
    /\ ~ Supported(expected_hash[p].val)
EmptyExpected(p) ==
    mode[p] = "fetch" /\ expected_hash[p] = Some(<<>>)
BodyError(p) == result[p] \in {IoError("write"), HttpError("stream")}

\* C25: a fetch with a non-empty expected digest of a length other than 40,
\* 64 and 128 never returns success and never returns through the skip
\* rule: its check of an existing file never answers true, its accumulator
\* is the None variant, and once the body was consumed to its end the
\* result is the mismatch of the empty string against the expected digest.
C25_UnknownLengthNeverSucceeds ==
    \A p \in Procs :
        UnknownLength(p)
        => /\ ~ (pc[p] = "done" /\ result[p] = Ok)
           /\ ~ skipped[p]
           /\ verified[p] # "true"
           /\ pc[p] \in {"next", "write", "update", "final"}
                => hasher[p] = NewHasher("None")
           /\ (pc[p] = "done" /\ wopens[p] = 1 /\ ~ BodyError(p))
                => /\ result[p] = HashMismatch(<<>>, expected_hash[p].val)
                   /\ stream[p] = <<>>
                   /\ fileData = response[p].body

\* An existing two-byte file failed the check against "abc", was fetched
\* again, and the transfer ended in the mismatch.
C25_Witness ==
    \E p \in Procs :
        /\ pc[p] = "done" /\ UnknownLength(p)
        /\ file0[p].exists /\ ~ override_file[p] /\ verified[p] = "false"
        /\ result[p] = HashMismatch(<<>>, expected_hash[p].val)
        /\ Len(fileData) = 2

\* C26 as stated: a fetch with the empty expected digest and
\* overwrite=false skips an existing destination of any content, as a
\* fetch without digest does, and never returns a mismatch.
C26_AsStated ==
    \A p \in Procs :
        (EmptyExpected(p) /\ pc[p] = "done")
        => /\ result[p].kind # "HashMismatch"
           /\ (file0[p].exists /\ ~ override_file[p])
                => (result[p] = Ok /\ skipped[p] /\ requests[p] = 0)

\* C26: a fetch with the empty expected digest never returns a mismatch and
\* returns success after every transfer consumed to its end; with
\* overwrite=false and an existing destination it reads the file (which a
\* fetch without digest does not) and then skips whatever the content, or
\* returns the I/O error of opening or reading it; it never refetches.
C26_EmptyExpectedChecksNothing ==
    \A p \in Procs :
        EmptyExpected(p)
        => /\ result[p].kind # "HashMismatch"
           /\ verified[p] # "false"
           /\ pc[p] \in {"next", "write", "update", "final"}
                => hasher[p] = NewHasher("None")
           /\ (pc[p] = "done" /\ file0[p].exists /\ ~ override_file[p])
                => /\ requests[p] = 0 /\ wopens[p] = 0 /\ FileAsBefore(p)
                   /\ \/ result[p] = Ok /\ skipped[p] /\ verified[p] = "true"
                      \/ PrecheckIoError(p)
           /\ (pc[p] = "done" /\ wopens[p] = 1 /\ ~ BodyError(p))
                => /\ result[p] = Ok
                   /\ fileData = response[p].body

\* A two-byte destination read to its end and accepted.
C26_Witness ==
    \E p \in Procs :
        /\ pc[p] = "done" /\ EmptyExpected(p)
        /\ ~ override_file[p]
        /\ result[p] = Ok /\ skipped[p]
        /\ Len(fileData) = 2 /\ vpos[p] = 2

\* C27: with two fetches of one destination in progress at once, a fetch
\* returns success after a transfer exactly when the digest of its own
\* stream is the expected one: the bytes it hashed are the chunks it
\* received, whatever the other fetch wrote to the destination meanwhile.
\* Nothing ties that success to the content of the destination: the state
\* of C27_Witness, where both have succeeded and the destination does not
\* have the digest one of them expected, is reachable.
C27_SuccessIsAboutOwnStream ==
    \A p \in Procs :
        (pc[p] = "done" /\ result[p] = Ok /\ requests[p] = 1)
        => /\ received[p] = response[p].body
           /\ fed[p] = received[p]
           /\ Matching(received[p], expected_hash[p].val)

\* Both fetches fetched, with different bodies, and returned success; the
\* destination has not the digest the first expected.
C27_Witness ==
    /\ \A p \in Procs : pc[p] = "done" /\ result[p] = Ok /\ requests[p] = 1
    /\ response[1].body # response[2].body
    /\ fileExists
    /\ ~ Matching(fileData, expected_hash[1].val)
    /\ Matching(fileData, expected_hash[2].val)

\* C28: under SpecLive's fairness (the transport answers, the stream ends or
\* fails) every fetch that was called returns; and the fetch leaves its two
\* waits only by what the transport or the stream delivers: a response or a
\* transport error at reqwest::get, a chunk, the end or a stream error at
\* stream.next(): no step of the code ends a wait by a timeout.
C28_EveryFetchReturns ==
    /\ \A p \in Callers : (pc[p] = "start") ~> (pc[p] = "done")
    /\ [][\A p \in Callers :
            /\ (pc[p] = "get" /\ pc'[p] # "get")
                 => \/ pc'[p] = "status" /\ response'[p] # NoResponse
                    \/ pc'[p] = "done" /\ result'[p] = HttpError("get")
            /\ (pc[p] = "next" /\ pc'[p] # "next")
                 => \/ pc'[p] = "write"
                    \/ pc'[p] = "final" /\ stream[p] = <<>>
                    \/ pc'[p] = "done" /\ result'[p] = HttpError("stream")]_vars

\* A fetch that returned success after a body of two one-byte chunks.
C28_Witness ==
    \E p \in Callers :
        /\ pc[p] = "done" /\ result[p] = Ok
        /\ requests[p] = 1
        /\ Len(received[p]) = 2 /\ Len(chunk[p]) = 1
        /\ expected_hash[p].some /\ Supported(expected_hash[p].val)

====
